---- MODULE Spec2Model ----
(***************************************************************************)
(* Blog API (src/main.py): two SQLite tables, blog_posts and comments,     *)
(* mapped by SQLAlchemy, and four FastAPI handlers over them.              *)
(*                                                                         *)
(* A table is the sequence of its rows in rowid order, which is the order  *)
(* a SELECT without ORDER BY scans it in.  A string is kept run-length     *)
(* encoded, [ch, n] standing for n copies of ch, so that the real field    *)
(* bounds (255, 1000, 100) stay in the model.  The timestamp columns       *)
(* (created_at, updated_at) are not modelled.                              *)
(***************************************************************************)
EXTENDS Integers, Sequences, FiniteSets, TLC

VARIABLES blog_posts, comments, request, response, sessions, dblock, served, returned

vars == <<blog_posts, comments, request, response, sessions, dblock, served, returned>>

store == <<blog_posts, comments>>

-----------------------------------------------------------------------------
(* Bounds of the model: the largest post id and comment id given out, the   *)
(* number of concurrent workers and of requests they serve.                *)

MaxPosts == 2
MaxComments == 2
NumWorkers == 2
MaxRequests == 3

(* Program constants *)

TITLE_MAX_LENGTH == 255
COMMENT_CONTENT_MAX_LENGTH == 1000
AUTHOR_MAX_LENGTH == 100
HTTP_200_OK == 200
HTTP_201_CREATED == 201
HTTP_404_NOT_FOUND == 404
HTTP_422_UNPROCESSABLE_ENTITY == 422

\* Python's None: a record, so that it compares with a row.
None == [none |-> TRUE]

\* dblock, the set of connections holding the database write lock, when no
\* connection holds it.
Unlocked == {}

-----------------------------------------------------------------------------
(* Strings and request inputs *)

Str(ch, n) == [ch |-> ch, n |-> n]

StrLen(s) == s.n

\* Request bodies: the valid ones at both ends of each field's range, and
\* one body per violated bound.
PostBodies ==
    {[title |-> Str("t", 1), content |-> Str("p", 1)],
     [title |-> Str("t", TITLE_MAX_LENGTH), content |-> Str("p", 1)],
     [title |-> Str("t", 0), content |-> Str("p", 1)],
     [title |-> Str("t", TITLE_MAX_LENGTH + 1), content |-> Str("p", 1)],
     [title |-> Str("t", 1), content |-> Str("p", 0)]}

CommentBodies ==
    {[content |-> Str("c", 1), author |-> Str("a", 1)],
     [content |-> Str("c", COMMENT_CONTENT_MAX_LENGTH), author |-> Str("a", AUTHOR_MAX_LENGTH)],
     [content |-> Str("c", 0), author |-> Str("a", 1)],
     [content |-> Str("c", COMMENT_CONTENT_MAX_LENGTH + 1), author |-> Str("a", 1)],
     [content |-> Str("c", 1), author |-> Str("a", 0)],
     [content |-> Str("c", 1), author |-> Str("a", AUTHOR_MAX_LENGTH + 1)]}

PathIds == 0 .. (MaxPosts + 1)

-----------------------------------------------------------------------------
(* Pydantic request models *)

BlogPostBase(body) ==
    /\ StrLen(body.title) >= 1
    /\ StrLen(body.title) <= TITLE_MAX_LENGTH
    /\ StrLen(body.content) >= 1

\* Mutant: the author's max_length left out.
CommentBase_NoAuthorMax(body) ==
    /\ StrLen(body.content) >= 1
    /\ StrLen(body.content) <= COMMENT_CONTENT_MAX_LENGTH
    /\ StrLen(body.author) >= 1

CommentBase(body) ==
    /\ StrLen(body.content) >= 1
    /\ StrLen(body.content) <= COMMENT_CONTENT_MAX_LENGTH
    /\ StrLen(body.author) >= 1
    /\ StrLen(body.author) <= AUTHOR_MAX_LENGTH

-----------------------------------------------------------------------------
(* The tables and the queries the handlers run on them *)

RowIds(table) == {table[i].id : i \in DOMAIN table}

MaxOf(S) == CHOOSE m \in S : \A x \in S : x <= m

\* Integer primary key of a new row: SQLite gives max(rowid) + 1, and 1 in
\* an empty table.
NextRowid_NoIncrement(table) == IF table = <<>> THEN 1 ELSE MaxOf(RowIds(table))

NextRowid(table) == IF table = <<>> THEN 1 ELSE MaxOf(RowIds(table)) + 1

\* Mutants of the lookup: the filter dropped, and <= for ==.
QueryPost_NoFilter(posts, post_id) == IF posts = <<>> THEN None ELSE posts[1]

QueryPost_LessEq(posts, post_id) ==
    IF \E i \in DOMAIN posts : posts[i].id <= post_id
    THEN posts[CHOOSE i \in DOMAIN posts : posts[i].id <= post_id]
    ELSE None

\* db.query(BlogPost).filter(BlogPost.id == post_id).first()
QueryPost(posts, post_id) ==
    IF \E i \in DOMAIN posts : posts[i].id = post_id
    THEN posts[CHOOSE i \in DOMAIN posts : posts[i].id = post_id]
    ELSE None

IsParent(c, post_id) == c.blog_post_id = post_id

\* Mutant: the lazy load ordered newest first.
PostComments_Reversed(cmts, post_id) ==
    LET OfPost(c) == IsParent(c, post_id)
        sel == SelectSeq(cmts, OfPost)
    IN  [i \in DOMAIN sel |-> sel[Len(sel) + 1 - i]]

\* post.comments: the relationship's lazy load, SELECT ... WHERE
\* blog_post_id = :id, rows in scan order.
PostComments(cmts, post_id) ==
    LET OfPost(c) == IsParent(c, post_id) IN SelectSeq(cmts, OfPost)

NewBlogPost(posts, body) ==
    [id |-> NextRowid(posts), title |-> body.title, content |-> body.content]

\* Mutant: content and author swapped.
NewComment_Swapped(cmts, post_id, body) ==
    [id |-> NextRowid(cmts), content |-> body.author, author |-> body.content,
     blog_post_id |-> post_id]

NewComment(cmts, post_id, body) ==
    [id |-> NextRowid(cmts), content |-> body.content, author |-> body.author,
     blog_post_id |-> post_id]

InsertRow(table, row) == Append(table, row)

\* db.refresh(obj): the object's columns read back from its row.
Refresh(table, obj) == table[CHOOSE i \in DOMAIN table : table[i].id = obj.id]

\* Mutant: no cascade, the comments are left behind.
CascadeDelete_None(cmts, post_id) == cmts

\* session.delete(post) under cascade="all, delete-orphan": the comments
\* table once the post's comments are deleted with it.
CascadeDelete(cmts, post_id) ==
    LET Kept(c) == ~IsParent(c, post_id) IN SelectSeq(cmts, Kept)

DeleteRow(table, id) ==
    LET Kept(r) == r.id # id IN SelectSeq(table, Kept)

-----------------------------------------------------------------------------
(* Response models *)

CommentResponse(c) == [id |-> c.id, content |-> c.content, author |-> c.author]

CommentResponses(cs) == [i \in DOMAIN cs |-> CommentResponse(cs[i])]

\* Mutant: the comments field left at its default, [].
BlogPostResponse_NoComments(post, cmts) ==
    [id |-> post.id, title |-> post.title, content |-> post.content, comments |-> <<>>]

BlogPostResponse(post, cmts) ==
    [id |-> post.id, title |-> post.title, content |-> post.content,
     comments |-> CommentResponses(PostComments(cmts, post.id))]

\* Mutant: every comment counted, whatever its post.
BlogPostSummary_CountAll(post, cmts) ==
    [id |-> post.id, title |-> post.title, comment_count |-> Len(cmts)]

BlogPostSummary(post, cmts) ==
    [id |-> post.id, title |-> post.title,
     comment_count |-> Len(PostComments(cmts, post.id))]

Reply(code, body) == [status |-> code, body |-> body]

NotFound == Reply(HTTP_404_NOT_FOUND, [detail |-> "not found"])

ValidationError == Reply(HTTP_422_UNPROCESSABLE_ENTITY, [detail |-> "validation error"])

-----------------------------------------------------------------------------
(* Initial state: empty tables (Base.metadata.create_all), no request yet *)

Workers == 1 .. NumWorkers

\* A worker's database session (get_db) and its handler's position.
IdleSession ==
    [pc |-> "idle", seq |-> 0, op |-> "none", post_id |-> 0, body |-> None, obj |-> None]

Init ==
    /\ blog_posts = <<>>
    /\ comments = <<>>
    /\ request = [op |-> "none"]
    /\ response = Reply(0, None)
    /\ sessions = [w \in Workers |-> IdleSession]
    /\ dblock = Unlocked
    /\ served = 0
    /\ returned = {}

-----------------------------------------------------------------------------
(* The handlers, one request served at a time *)

Sequential == UNCHANGED <<sessions, dblock, served, returned>>

ListSummaries(posts, cmts) == [i \in DOMAIN posts |-> BlogPostSummary(posts[i], cmts)]

get_all_posts ==
    /\ request' = [op |-> "get_all_posts"]
    /\ response' = Reply(HTTP_200_OK, ListSummaries(blog_posts, comments))
    /\ UNCHANGED store
    /\ Sequential

get_post ==
    \E post_id \in PathIds :
        LET post == QueryPost(blog_posts, post_id) IN
        /\ request' = [op |-> "get_post", post_id |-> post_id]
        /\ response' = IF post = None
                       THEN NotFound
                       ELSE Reply(HTTP_200_OK, BlogPostResponse(post, comments))
        /\ UNCHANGED store
        /\ Sequential

create_post ==
    \E body \in PostBodies :
        /\ request' = [op |-> "create_post", body |-> body]
        /\ IF ~BlogPostBase(body)
           THEN /\ response' = ValidationError
                /\ UNCHANGED store
           ELSE LET db_post == NewBlogPost(blog_posts, body) IN
                /\ db_post.id <= MaxPosts
                /\ blog_posts' = InsertRow(blog_posts, db_post)
                /\ UNCHANGED comments
                /\ response' = Reply(HTTP_201_CREATED,
                                     BlogPostResponse(Refresh(blog_posts', db_post), comments'))
        /\ Sequential

create_comment ==
    \E post_id \in PathIds, body \in CommentBodies :
        /\ request' = [op |-> "create_comment", post_id |-> post_id, body |-> body]
        /\ IF ~CommentBase(body)
           THEN /\ response' = ValidationError
                /\ UNCHANGED store
           ELSE IF QueryPost(blog_posts, post_id) = None
           THEN /\ response' = NotFound
                /\ UNCHANGED store
           ELSE LET db_comment == NewComment(comments, post_id, body) IN
                /\ db_comment.id <= MaxComments
                /\ comments' = InsertRow(comments, db_comment)
                /\ UNCHANGED blog_posts
                /\ response' = Reply(HTTP_201_CREATED,
                                     CommentResponse(Refresh(comments', db_comment)))
        /\ Sequential

Next ==
    \/ get_all_posts
    \/ get_post
    \/ create_post
    \/ create_comment

Spec == Init /\ [][Next]_vars

-----------------------------------------------------------------------------
(* The persistence layer's delete: Session.delete(post) and commit.  No     *)
(* handler calls it; the relationship's cascade setting decides what it     *)
(* does to the post's comments.                                             *)

delete_post ==
    \E post_id \in PathIds :
        /\ QueryPost(blog_posts, post_id) # None
        /\ request' = [op |-> "delete_post", post_id |-> post_id]
        /\ response' = Reply(0, None)
        /\ comments' = CascadeDelete(comments, post_id)
        /\ blog_posts' = DeleteRow(blog_posts, post_id)
        /\ Sequential

NextPersistence == Next \/ delete_post

SpecPersistence == Init /\ [][NextPersistence]_vars

-----------------------------------------------------------------------------
(* Create requests served concurrently, each worker with its own session.  *)
(* A handler's steps are its query, db.add, and db.commit, which flushes   *)
(* the INSERT under SQLite's write lock and then commits; db.refresh and   *)
(* the return follow.  Reads see committed rows only.                      *)

ConcPathIds == 1 .. 2

ConcPostBodies ==
    {[title |-> Str("t", 1), content |-> Str("p", 1)],
     [title |-> Str("t", 0), content |-> Str("p", 1)]}

ConcCommentBodies ==
    {[content |-> Str("c", 1), author |-> Str("a", 1)],
     [content |-> Str("c", 1), author |-> Str("a", 0)]}

\* Mutant: writers do not exclude each other.
CanWrite_NoLock(lock) == TRUE

\* SQLite lets one connection write at a time.
CanWrite(lock) == lock = Unlocked

Table(op) == IF op = "create_post" THEN blog_posts ELSE comments

Handled(w, s) ==
    /\ sessions' = [sessions EXCEPT ![w] = s]
    /\ UNCHANGED <<request, response>>

\* Request validation and dependency injection, before the handler runs.
Receive(w) ==
    /\ sessions[w].pc = "idle"
    /\ served < MaxRequests
    /\ served' = served + 1
    /\ \/ \E body \in ConcPostBodies :
             Handled(w, IF BlogPostBase(body)
                        THEN [IdleSession EXCEPT !.pc = "handler", !.seq = served',
                                                 !.op = "create_post", !.body = body]
                        ELSE IdleSession)
       \/ \E post_id \in ConcPathIds, body \in ConcCommentBodies :
             Handled(w, IF CommentBase(body)
                        THEN [IdleSession EXCEPT !.pc = "handler", !.seq = served',
                                                 !.op = "create_comment", !.body = body,
                                                 !.post_id = post_id]
                        ELSE IdleSession)
    /\ UNCHANGED <<store, dblock, returned>>

\* create_comment's lookup of the post; 404 ends the request.
Query(w) ==
    /\ sessions[w].pc = "handler"
    /\ sessions[w].op = "create_comment"
    /\ Handled(w, IF QueryPost(blog_posts, sessions[w].post_id) = None
                  THEN IdleSession
                  ELSE [sessions[w] EXCEPT !.pc = "queried"])
    /\ UNCHANGED <<store, dblock, served, returned>>

\* db.add: the new object is pending in the session, its id not yet set.
Add(w) ==
    /\ \/ sessions[w].pc = "handler" /\ sessions[w].op = "create_post"
       \/ sessions[w].pc = "queried"
    /\ Handled(w, [sessions[w] EXCEPT !.pc = "pending"])
    /\ UNCHANGED <<store, dblock, served, returned>>

\* db.commit, first half: BEGIN and INSERT; the database gives the row id.
Flush(w) ==
    LET s == sessions[w]
        obj == IF s.op = "create_post"
               THEN NewBlogPost(blog_posts, s.body)
               ELSE NewComment(comments, s.post_id, s.body)
    IN  /\ s.pc = "pending"
        /\ CanWrite(dblock)
        /\ dblock' = {w}
        /\ Handled(w, [s EXCEPT !.pc = "flushed", !.obj = obj])
        /\ UNCHANGED <<store, served, returned>>

\* The write lock is held by another connection: "database is locked", 500.
DatabaseLocked(w) ==
    /\ sessions[w].pc = "pending"
    /\ ~CanWrite(dblock)
    /\ Handled(w, IdleSession)
    /\ UNCHANGED <<store, dblock, served, returned>>

\* db.commit, second half: COMMIT publishes the row and frees the lock.
Commit(w) ==
    LET s == sessions[w] IN
    /\ s.pc = "flushed"
    /\ IF s.op = "create_post"
       THEN blog_posts' = InsertRow(blog_posts, s.obj) /\ UNCHANGED comments
       ELSE comments' = InsertRow(comments, s.obj) /\ UNCHANGED blog_posts
    /\ dblock' = Unlocked
    /\ Handled(w, [s EXCEPT !.pc = "committed"])
    /\ UNCHANGED <<served, returned>>

\* db.refresh and the 201 response.
Return(w) ==
    LET s == sessions[w] IN
    /\ s.pc = "committed"
    /\ returned' = returned \cup
          {[seq |-> s.seq, op |-> s.op, post_id |-> s.post_id,
            id |-> Refresh(Table(s.op), s.obj).id, overlapped |-> served > s.seq]}
    /\ Handled(w, IdleSession)
    /\ UNCHANGED <<store, dblock, served>>

NextConcurrent ==
    \E w \in Workers :
        \/ Receive(w)
        \/ Query(w)
        \/ Add(w)
        \/ Flush(w)
        \/ DatabaseLocked(w)
        \/ Commit(w)
        \/ Return(w)

SpecConcurrent == Init /\ [][NextConcurrent]_vars

-----------------------------------------------------------------------------
(* Properties.  They are stated on the tables and on the request just      *)
(* served and its response, with the field bounds written out, not through *)
(* the operators the handlers are built from.                              *)

Rows(table) == {table[i] : i \in DOMAIN table}

CommentsOf(cmts, post_id) == {c \in Rows(cmts) : c.blog_post_id = post_id}

ValidPostBody(b) == b.title.n >= 1 /\ b.title.n <= 255 /\ b.content.n >= 1

ValidCommentBody(b) ==
    b.content.n >= 1 /\ b.content.n <= 1000 /\ b.author.n >= 1 /\ b.author.n <= 100

Increasing(seq) == \A i, j \in DOMAIN seq : i < j => seq[i].id < seq[j].id

Extends(table2, table1) ==
    /\ Len(table2) = Len(table1) + 1
    /\ SubSeq(table2, 1, Len(table1)) = table1

\* C1: in every state reached through the four handlers, each stored
\* comment's blog_post_id is the id of exactly one stored post.
C1_ReferentialIntegrity ==
    \A i \in DOMAIN comments :
        Cardinality({j \in DOMAIN blog_posts :
                        blog_posts[j].id = comments[i].blog_post_id}) = 1

C1_Witness ==
    /\ Len(comments) = 2
    /\ comments[1].blog_post_id # comments[2].blog_post_id
    /\ request.op = "create_comment"
    /\ response.status = 404

\* C2: a valid comment posted to an id that no stored post has is answered
\* 404 and both tables stay as they were.
C2_CommentOnMissingPost ==
    [][(/\ request'.op = "create_comment"
        /\ ValidCommentBody(request'.body)
        /\ request'.post_id \notin RowIds(blog_posts))
       => (/\ response'.status = 404
           /\ blog_posts' = blog_posts
           /\ comments' = comments)]_vars

C2_Witness ==
    /\ request.op = "create_comment"
    /\ ValidCommentBody(request.body)
    /\ request.post_id \notin RowIds(blog_posts)
    /\ response.status = 404
    /\ blog_posts # <<>>
    /\ comments # <<>>

\* C3: a create request whose body breaks a field bound is answered 422 and
\* changes no table; for a comment, whether or not the post exists.
C3_ValidationRejects ==
    [][(\/ request'.op = "create_post" /\ ~ValidPostBody(request'.body)
        \/ request'.op = "create_comment" /\ ~ValidCommentBody(request'.body))
       => (/\ response'.status = 422
           /\ blog_posts' = blog_posts
           /\ comments' = comments)]_vars

C3_Witness ==
    /\ request.op = "create_comment"
    /\ ~ValidCommentBody(request.body)
    /\ request.post_id \notin RowIds(blog_posts)
    /\ blog_posts # <<>>
    /\ response.status = 422

\* C4: a fetched post lists exactly the comments stored for it, oldest
\* first: ids ascend in the list, and each new comment gets an id above
\* every comment created before it.
C4_Fetched ==
    (request.op = "get_post" /\ response.status = 200) =>
        LET cs == response.body.comments IN
        /\ Increasing(cs)
        /\ {[id |-> c.id, content |-> c.content, author |-> c.author] :
               c \in CommentsOf(comments, request.post_id)} = Rows(cs)

C4_Created ==
    (request'.op = "create_comment" /\ response'.status = 201) =>
        /\ \A c \in Rows(comments) : c.id < response'.body.id
        /\ \E c \in CommentsOf(comments', request'.post_id) : c.id = response'.body.id

C4_CommentsInCreationOrder == [] C4_Fetched /\ [][C4_Created]_vars

C4_Witness ==
    /\ request.op = "get_post"
    /\ response.status = 200
    /\ Len(response.body.comments) = 2
    /\ response.body.comments[1].content # response.body.comments[2].content

\* C5: the list has one summary per stored post, in creation order, each
\* with the number of stored comments of that post: 0 for a new post, one
\* more after each comment created on it.
C5_Listed ==
    request.op = "get_all_posts" =>
        LET list == response.body IN
        /\ Len(list) = Len(blog_posts)
        /\ Increasing(list)
        /\ \A i \in DOMAIN list :
              /\ list[i].id = blog_posts[i].id
              /\ list[i].title = blog_posts[i].title
              /\ list[i].comment_count =
                    Cardinality(CommentsOf(comments, list[i].id))

C5_Counted ==
    /\ (request'.op = "create_post" /\ response'.status = 201) =>
          /\ CommentsOf(comments', response'.body.id) = {}
          /\ \A q \in Rows(blog_posts) : q.id < response'.body.id
    /\ (request'.op = "create_comment" /\ response'.status = 201) =>
          \A q \in Rows(blog_posts) :
              Cardinality(CommentsOf(comments', q.id)) =
                 Cardinality(CommentsOf(comments, q.id))
                    + (IF q.id = request'.post_id THEN 1 ELSE 0)

C5_ListOfPosts == [] C5_Listed /\ [][C5_Counted]_vars

C5_Witness ==
    /\ request.op = "get_all_posts"
    /\ Len(response.body) = 2
    /\ response.body[1].comment_count = 0
    /\ response.body[2].comment_count = 2

\* C6: a valid create-post is answered 201 with the submitted title and
\* content, no comments and an id no stored post has (1 in an empty table);
\* the posts table gains that one row and nothing else changes.
C6_CreatePost ==
    [][(request'.op = "create_post" /\ ValidPostBody(request'.body)) =>
          LET r == response'.body IN
          /\ response'.status = 201
          /\ r.title = request'.body.title
          /\ r.content = request'.body.content
          /\ r.comments = <<>>
          /\ r.id \notin RowIds(blog_posts)
          /\ (blog_posts = <<>> => r.id = 1)
          /\ Extends(blog_posts', blog_posts)
          /\ blog_posts'[Len(blog_posts')] =
                [id |-> r.id, title |-> r.title, content |-> r.content]
          /\ comments' = comments]_vars

C6_Witness ==
    /\ request.op = "create_post"
    /\ response.status = 201
    /\ Len(blog_posts) = 2
    /\ blog_posts[1].title # blog_posts[2].title
    /\ comments # <<>>

\* C7: fetching a post is answered 404 exactly when no stored post has the
\* id, and otherwise 200 with that post's title and content, which never
\* change after its creation, and all of its comments; no table changes.
C7_GetPost ==
    [][/\ \A i \in DOMAIN blog_posts :
             i \in DOMAIN blog_posts' /\ blog_posts'[i] = blog_posts[i]
       /\ request'.op = "get_post" =>
             LET id == request'.post_id
                 r == response'.body
             IN  /\ response'.status = 404 <=> id \notin RowIds(blog_posts)
                 /\ id \in RowIds(blog_posts) =>
                       /\ response'.status = 200
                       /\ [id |-> r.id, title |-> r.title, content |-> r.content]
                             \in Rows(blog_posts)
                       /\ r.id = id
                       /\ {c.id : c \in Rows(r.comments)} =
                             {c.id : c \in CommentsOf(comments, id)}
                 /\ blog_posts' = blog_posts
                 /\ comments' = comments]_vars

C7_Witness ==
    /\ request.op = "get_post"
    /\ response.status = 200
    /\ request.post_id = 2
    /\ response.body.title # blog_posts[1].title
    /\ response.body.comments # <<>>

C9_CreateComment ==
    [][(/\ request'.op = "create_comment"
        /\ ValidCommentBody(request'.body)
        /\ request'.post_id \in RowIds(blog_posts)) =>
          LET r == response'.body IN
          /\ response'.status = 201
          /\ r.content = request'.body.content
          /\ r.author = request'.body.author
          /\ Extends(comments', comments)
          /\ comments'[Len(comments')] =
                [id |-> r.id, content |-> r.content, author |-> r.author,
                 blog_post_id |-> request'.post_id]
          /\ blog_posts' = blog_posts]_vars

C9_Witness ==
    /\ request.op = "create_comment"
    /\ response.status = 201
    /\ Len(comments) = 2
    /\ comments[1].blog_post_id # comments[2].blog_post_id
    /\ comments[1].content # comments[2].content

\* C10: under any interleaving of the workers' steps, post ids are pairwise
\* distinct, comment ids are pairwise distinct, and every request answered
\* 201 has its own row in its table, a comment's row under the post its
\* request named.
C10_NoLostWrite ==
    /\ Cardinality(RowIds(blog_posts)) = Len(blog_posts)
    /\ Cardinality(RowIds(comments)) = Len(comments)
    /\ \A r \in returned :
          /\ r.op = "create_post" => r.id \in RowIds(blog_posts)
          /\ r.op = "create_comment" =>
                \E c \in Rows(comments) : c.id = r.id /\ c.blog_post_id = r.post_id
    /\ \A r1, r2 \in returned : (r1.op = r2.op /\ r1.id = r2.id) => r1.seq = r2.seq

C10_Witness ==
    \E r1, r2 \in returned :
        /\ r1.op = "create_post" /\ r1.overlapped
        /\ r2.op = "create_comment" /\ r2.overlapped
        /\ \E w \in Workers : sessions[w].pc = "flushed"

====
